---- MODULE Spec2Model ----
(***************************************************************************)
(* Runtime module patching of LLaVA-CoT's inference helpers.               *)
(*                                                                         *)
(* The model covers the patch manager TransformersRuntimePatcher           *)
(* (inference/fixed_patch.py), the content-rewriting functions of          *)
(* inference/simple_patch.py and the scoped context of                     *)
(* inference/patch_example.py, together with the parts of the Python       *)
(* runtime they act on: the module registry sys.modules, module objects    *)
(* and their namespaces, and the replacement files on disk.                *)
(*                                                                         *)
(* A Python dict is a function whose DOMAIN is its key set, except         *)
(* applied_patches, whose iteration order restore_all observes: it is a    *)
(* sequence of entries in insertion order.  A dotted module path is the    *)
(* sequence of its components, a source text the sequence of its tokens.   *)
(***************************************************************************)
EXTENDS Integers, Sequences, FiniteSets, TLC

VARIABLES
    sysmodules,       \* sys.modules: dotted path -> module object
    heap,             \* the module objects that exist
    modules,          \* module object -> its namespace (attribute name -> value)
    applied_patches,  \* per manager: self.applied_patches
    backup_modules,   \* per manager: self.backup_modules
    listed,           \* the mapping a caller holds from list_patches()
    scope,            \* the frame of the generator patched_mllama_processor
    entry,            \* history: the entry points that patched the mllama module
    first,            \* history: per manager and path, the first apply of a run
    last,             \* history: the call that produced the current state
    recording,        \* the history variables a specification keeps up to date
    tmpfiles,         \* the files NamedTemporaryFile created that still exist
    nested            \* the frame of a patched_mllama_processor entered in the body of another

vars == <<sysmodules, heap, modules, applied_patches, backup_modules,
          listed, scope, entry, first, last, recording, tmpfiles, nested>>

----------------------------------------------------------------------------
(* Bounds *)

\* module objects the process can create
NumObjs == 7

\* statements of a replacement text given to the import rewriting
MaxStatements == 3

\* the count of successful applies per manager and path between two
\* restores stops here
MaxApplies == 2

\* the temporary files that may be left behind before the calls that would
\* leave another are cut off
MaxTmpFiles == 2

----------------------------------------------------------------------------
(* Python values *)

Objs == 1..NumObjs

EmptyDict == [k \in {} |-> ""]

DictDel(d, k) == [x \in (DOMAIN d) \ {k} |-> d[x]]

DictPut(d, k, v) == [x \in (DOMAIN d) \cup {k} |-> IF x = k THEN v ELSE d[x]]

\* str.startswith('_') on the attribute names that occur
PrivateNames ==
    {"_runtime_patched", "_patch_source", "_backup", "_original_backup", "_impl"}

startswith_underscore(attr_name) == attr_name \in PrivateNames

\* [a for a in dir(module) if not a.startswith('_')]
PublicNames(namespace) == {a \in DOMAIN namespace : ~startswith_underscore(a)}

PublicAttrs(namespace) == [a \in PublicNames(namespace) |-> namespace[a]]

----------------------------------------------------------------------------
(* Module paths and what is installed on disk *)

Mllama == <<"transformers", "models", "mllama", "processing_mllama">>

PkgMod == <<"pkg", "mod">>

Paths == {Mllama, PkgMod}

\* module_path.split('.')[:-1], joined back prefix by prefix
ParentPaths(module_path) ==
    [i \in 1..(Len(module_path) - 1) |-> SubSeq(module_path, 1, i)]

\* the transformers distribution is installed; pkg.mod exists only as a
\* module object the host registered
OnDisk(name) == name = SubSeq(Mllama, 1, Len(name))

\* the namespace a module has right after its own code ran
OriginalAttrs(name) ==
    IF name = Mllama
        THEN ("MllamaProcessor" :> "orig") @@ ("BatchFeature" :> "BatchFeature")
             @@ ("_impl" :> "orig")
    ELSE IF name = PkgMod
        THEN ("foo" :> "1") @@ ("bar" :> "x") @@ ("_impl" :> "orig")
    ELSE EmptyDict

----------------------------------------------------------------------------
(* Replacement files *)

\* the file beside the patch scripts, Path(__file__).parent / "processing_mllama.py"
SiblingFile == "processing_mllama.py"

Files == {"missing.py", SiblingFile, "foo2.py", "extra.py"}

\* Path(custom_file_path).exists()
FileExistsAlways(custom_file_path) == TRUE

FileExists(custom_file_path) == custom_file_path # "missing.py"

\* f.read(): the text of a file, token by token
FileText(custom_file_path) ==
    IF custom_file_path = SiblingFile THEN
        << "from", "...feature_extraction_utils", "import", "BatchFeature", "\n",
           "MllamaProcessor", "=", "custom", "\n",
           "_impl", "=", "custom", "\n" >>
    ELSE IF custom_file_path = "foo2.py" THEN
        << "foo", "=", "2", "\n" >>
    ELSE IF custom_file_path = "extra.py" THEN
        << "from", "transformers.image_utils", "import", "ImageInput", "\n",
           "MllamaProcessor", "=", "custom2", "\n",
           "foo", "=", "3", "\n",
           "_impl", "=", "custom2", "\n" >>
    ELSE << >>

\* library modules an absolute import statement finds
AbsoluteModules ==
    {"transformers.feature_extraction_utils", "transformers.image_utils",
     "transformers.processing_utils", "transformers.tokenization_utils_base",
     "transformers.models.mllama.image_processing_mllama"}

\* index of the newline that ends the statement starting at i
RECURSIVE LineEnd(_, _)
LineEnd(text, i) ==
    IF i > Len(text) \/ text[i] = "\n" THEN i ELSE LineEnd(text, i + 1)

\* spec.loader.exec_module(custom_module): runs the statements in order.
\* "from M import a, b" binds a and b when M is an absolute module and
\* raises otherwise (no parent package is known for a relative import);
\* "name = value" binds name.
RECURSIVE exec_module(_, _, _)
exec_module(text, i, namespace) ==
    IF i > Len(text) THEN [ok |-> TRUE, namespace |-> namespace]
    ELSE IF text[i] = "\n" THEN exec_module(text, i + 1, namespace)
    ELSE IF text[i] = "from" THEN
        IF text[i + 1] \notin AbsoluteModules
            THEN [ok |-> FALSE, namespace |-> namespace]
            ELSE LET e == LineEnd(text, i)
                     names == {text[j] : j \in (i + 3)..(e - 1)} \ {","}
                 IN exec_module(text, e,
                        [a \in (DOMAIN namespace) \cup names |->
                            IF a \in names THEN a ELSE namespace[a]])
    ELSE exec_module(text, i + 3, DictPut(namespace, text[i], text[i + 2]))

\* spec_from_file_location + module_from_spec + exec_module on a file
LoadFile(text) == exec_module(text, 1, EmptyDict)

\* str.replace(old, new), on tokens
RECURSIVE replace(_, _, _)
replace(content, old, new) ==
    IF Len(content) < Len(old) THEN content
    ELSE IF SubSeq(content, 1, Len(old)) = old
        THEN new \o replace(SubSeq(content, Len(old) + 1, Len(content)), old, new)
        ELSE <<Head(content)>> \o replace(Tail(content), old, new)

\* the five replacements of patch_mllama_processor_simple, in order
RewriteAnyNames(content) ==
    replace(content, << "from", "...processing_utils", "import" >>,
                     << "from", "transformers.processing_utils", "import" >>)

RewriteImports(content) ==
    LET c1 == replace(content,
                << "from", "...feature_extraction_utils", "import", "BatchFeature" >>,
                << "from", "transformers.feature_extraction_utils", "import", "BatchFeature" >>)
        c2 == replace(c1,
                << "from", "...image_utils", "import", "ImageInput" >>,
                << "from", "transformers.image_utils", "import", "ImageInput" >>)
        c3 == replace(c2,
                << "from", "...processing_utils", "import", "ImagesKwargs", ",",
                   "ProcessingKwargs", ",", "ProcessorMixin", ",", "Unpack" >>,
                << "from", "transformers.processing_utils", "import", "ImagesKwargs", ",",
                   "ProcessingKwargs", ",", "ProcessorMixin", ",", "Unpack" >>)
        c4 == replace(c3,
                << "from", "...tokenization_utils_base", "import" >>,
                << "from", "transformers.tokenization_utils_base", "import" >>)
        c5 == replace(c4,
                << "from", ".image_processing_mllama", "import", "make_list_of_images" >>,
                << "from", "transformers.models.mllama.image_processing_mllama", "import",
                   "make_list_of_images" >>)
    IN c5

\* statements a replacement file is made of
Statements ==
    { << "from", "...feature_extraction_utils", "import", "BatchFeature", "\n" >>,
      << "from", "...image_utils", "import", "ImageInput", "\n" >>,
      << "from", "...processing_utils", "import", "ProcessorMixin", "\n" >>,
      << "from", "...processing_utils", "import", "ImagesKwargs", ",",
         "ProcessingKwargs", ",", "ProcessorMixin", ",", "Unpack", "\n" >>,
      << "from", "...tokenization_utils_base", "import", "PreTokenizedInput", "\n" >>,
      << "from", ".image_processing_mllama", "import", "make_list_of_images", "\n" >>,
      << "from", "...util", "import", "helper", "\n" >>,
      << "MllamaProcessor", "=", "custom", "\n" >> }

\* the texts of up to n statements
RECURSIVE TextsOf(_)
TextsOf(n) ==
    IF n = 0 THEN {<< >>}
    ELSE LET shorter == TextsOf(n - 1)
         IN shorter \cup {t \o st : t \in shorter, st \in Statements}

Texts == TextsOf(MaxStatements) \ {<< >>}

----------------------------------------------------------------------------
(* The interpreter state the operations act on *)

\* the current state, as the record the operations below transform
Now ==
    [sys |-> sysmodules, heap |-> heap, mods |-> modules,
     applied |-> applied_patches, backups |-> backup_modules]

\* a new module object
Fresh(hp) == CHOOSE o \in Objs \ hp : \A q \in Objs \ hp : o <= q

\* importlib.import_module(name) / "import name": the registered module if
\* there is one; otherwise the parent package is imported first, the
\* module's code runs in a new module object, which is registered and bound
\* as an attribute of its parent; ImportError when nothing is installed
\* under the name.
RECURSIVE import_module(_, _)
import_module(S, name) ==
    IF name \in DOMAIN S.sys THEN [ok |-> TRUE, obj |-> S.sys[name], S |-> S]
    ELSE IF ~OnDisk(name) THEN [ok |-> FALSE, obj |-> 0, S |-> S]
    ELSE LET parent == SubSeq(name, 1, Len(name) - 1)
             P == IF Len(name) > 1 THEN import_module(S, parent).S ELSE S
             o == Fresh(P.heap)
             S1 == [P EXCEPT !.sys = DictPut(@, name, o),
                             !.heap = @ \cup {o},
                             !.mods[o] = OriginalAttrs(name)]
             S2 == IF Len(name) > 1
                     THEN [S1 EXCEPT !.mods[S1.sys[parent]] =
                                        DictPut(@, name[Len(name)], o)]
                     ELSE S1
         IN [ok |-> TRUE, obj |-> o, S |-> S2]

\* the names an apply on module_path may have to import
ImportClosure(module_path) ==
    {<<"transformers">>}
        \cup {SubSeq(module_path, 1, i) : i \in 1..Len(module_path)}

\* enough unused module objects for every import an apply can make
HeapRoom(S, module_path) ==
    Cardinality({n \in ImportClosure(module_path) : OnDisk(n) /\ n \notin DOMAIN S.sys})
        <= Cardinality(Objs \ S.heap)

----------------------------------------------------------------------------
(* applied_patches: a dict iterated in insertion order *)

Keys(d) == {d[i].key : i \in 1..Len(d)}

KeyList(d) == [i \in 1..Len(d) |-> d[i].key]

Get(d, k) == d[CHOOSE i \in 1..Len(d) : d[i].key = k].value

\* d[k] = v: an existing key keeps its place, a new key goes last
Put(d, k, v) ==
    IF k \in Keys(d)
        THEN [i \in 1..Len(d) |-> IF d[i].key = k THEN [key |-> k, value |-> v] ELSE d[i]]
        ELSE Append(d, [key |-> k, value |-> v])

Del(d, k) == SelectSeq(d, LAMBDA e : e.key # k)

----------------------------------------------------------------------------
(* Outcomes of a call *)

\* the error kinds of the operations, and "none"
ErrorKinds ==
    {"MissingSourceFile", "TargetUnresolvable", "LoadExecutionFailure",
     "NoBackupAvailable", "AlreadyUnpatched", "RegistryMiss", "TempWriteFailure"}

\* "except Exception as e:" around the body of each operation: whatever the
\* body raises is caught and the operation returns False
ExceptImportError(exc) == exc \in {"ImportError", "FileNotFoundError"}

ExceptException(exc) == TRUE

\* the call ends without success in state S: the body raised exc, or
\* returned False by itself when exc = "none"
Failed(S, kind, exc) ==
    [result |-> FALSE, S |-> S, error |-> kind,
     raised |-> exc # "none" /\ ~ExceptException(exc)]

\* return True
Succeeded(S) == [result |-> TRUE, S |-> S, error |-> "none", raised |-> FALSE]

----------------------------------------------------------------------------
(* TransformersRuntimePatcher (fixed_patch.py) *)

Mgrs == {"global", "instance", "scope"}

\* the parent packages of the target are put into sys.modules when absent;
\* an ImportError is swallowed
RECURSIVE ImportParents(_, _, _)
ImportParents(S, parent_modules, i) ==
    IF i > Len(parent_modules) THEN S
    ELSE ImportParents(
            IF parent_modules[i] \notin DOMAIN S.sys
                THEN LET r == import_module(S, parent_modules[i])
                     IN IF r.ok THEN [r.S EXCEPT !.sys = DictPut(@, parent_modules[i], r.obj)]
                                ELSE S
                ELSE S,
            parent_modules, i + 1)

\* the public attributes of the target, by name
Snapshot(namespace) == PublicAttrs(namespace)

\* "if backup:" the snapshot is taken whenever the caller asks for one
Resnapshot(backups, module_path, backup) == backup

\* for every public attribute of the custom module, setattr on the target
TransplantReplace(target_ns, custom_ns) == PublicAttrs(custom_ns)

Transplant(target_ns, custom_ns) ==
    [a \in (DOMAIN target_ns) \cup PublicNames(custom_ns) |->
        IF a \in PublicNames(custom_ns) THEN custom_ns[a] ELSE target_ns[a]]

\* _runtime_patched and _patch_source are set on the target
MarkSourceOnly(target_ns, custom_file_path) ==
    DictPut(target_ns, "_patch_source", custom_file_path)

MarkPatched(target_ns, custom_file_path) ==
    DictPut(DictPut(target_ns, "_runtime_patched", "True"),
            "_patch_source", custom_file_path)

patch_module_from_file(S, self, module_path, custom_file_path, backup) ==
    LET t == import_module(S, <<"transformers">>)
        i == import_module(t.S, module_path)
        target == i.obj
        S3 == ImportParents(i.S, ParentPaths(module_path), 1)
        custom == LoadFile(FileText(custom_file_path))
        S4 == IF Resnapshot(S3.backups[self], module_path, backup)
                THEN [S3 EXCEPT !.backups[self] =
                        DictPut(@, module_path, Snapshot(S3.mods[target]))]
                ELSE S3
        S5 == [S4 EXCEPT !.mods[target] =
                    MarkPatched(Transplant(@, custom.namespace), custom_file_path)]
        S6 == [S5 EXCEPT !.sys = DictPut(@, module_path, target)]
        S7 == [S6 EXCEPT !.applied[self] =
                    Put(@, module_path,
                        [source_file |-> custom_file_path,
                         patch_count |-> Cardinality(PublicNames(custom.namespace)),
                         backup_available |-> backup])]
    IN IF ~FileExists(custom_file_path)
          THEN Failed(S, "MissingSourceFile", "FileNotFoundError")
       ELSE IF ~t.ok THEN Failed(S, "TargetUnresolvable", "ImportError")
       ELSE IF ~i.ok THEN Failed(t.S, "TargetUnresolvable", "ImportError")
       ELSE IF ~custom.ok THEN Failed(S3, "LoadExecutionFailure", "ImportError")
       ELSE Succeeded(S7)

\* the convenience method: the mllama processor module, with a backup
patch_mllama_processor(S, self, custom_file_path) ==
    patch_module_from_file(S, self, Mllama, custom_file_path, TRUE)

\* every backed-up attribute is set again on the target
RestoreAttrs(target_ns, backup) ==
    [a \in (DOMAIN target_ns) \cup (DOMAIN backup) |->
        IF a \in DOMAIN backup THEN backup[a] ELSE target_ns[a]]

\* delattr of the two markers, each when present
KeepMarker(target_ns) == target_ns

ClearMarker(target_ns) ==
    DictDel(DictDel(target_ns, "_runtime_patched"), "_patch_source")

\* "module was never patched": nothing is done and False is returned
NotPatchedIsSuccess(S) == Succeeded(S)

NotPatched(S) == Failed(S, "AlreadyUnpatched", "none")

restore_module(S, self, module_path) ==
    IF module_path \notin Keys(S.applied[self]) THEN NotPatched(S)
    ELSE IF ~Get(S.applied[self], module_path).backup_available
        THEN Failed(S, "NoBackupAvailable", "none")
    \* a KeyError of either lookup
    ELSE IF module_path \notin DOMAIN S.sys THEN Failed(S, "RegistryMiss", "KeyError")
    ELSE IF module_path \notin DOMAIN S.backups[self]
        THEN Failed(S, "NoBackupAvailable", "KeyError")
    ELSE LET target == S.sys[module_path]
             backup == S.backups[self][module_path]
         IN Succeeded(
              [S EXCEPT !.mods[target] = ClearMarker(RestoreAttrs(@, backup)),
                        !.applied[self] = Del(@, module_path),
                        !.backups[self] = DictDel(@, module_path)])

\* the loop of restore_all over list(self.applied_patches.keys()), from
\* position i: the state it ends in, the success flag and each restore's outcome
StopAfterFailure(paths, i, success) == i > Len(paths) \/ ~success

LoopDone(paths, i, success) == i > Len(paths)

RECURSIVE restore_loop(_, _, _, _, _, _)
restore_loop(S, self, paths, i, success, done) ==
    IF LoopDone(paths, i, success) THEN [result |-> success, S |-> S, done |-> done]
    ELSE LET r == restore_module(S, self, paths[i])
         IN restore_loop(r.S, self, paths, i + 1,
                IF ~r.result THEN FALSE ELSE success,
                Append(done, [module_path |-> paths[i], result |-> r.result]))

restore_all(S, self) ==
    restore_loop(S, self, KeyList(S.applied[self]), 1, TRUE, << >>)

VerifyFromRecords(S, module_path) ==
    \E self \in Mgrs : module_path \in Keys(S.applied[self])

verify_patch(S, module_path) ==
    /\ module_path \in DOMAIN S.sys
    /\ "_runtime_patched" \in DOMAIN S.mods[S.sys[module_path]]

\* list_patches returns self.applied_patches.copy(): a new mapping whose
\* values are the manager's own record objects.  An entry of the returned
\* mapping is "shared" while it is the object the manager holds.
list_patches(S, self) ==
    [p \in Keys(S.applied[self]) |-> [shared |-> TRUE, value |-> Get(S.applied[self], p)]]

----------------------------------------------------------------------------
(* simple_patch.py *)

MllamaPackage == SubSeq(Mllama, 1, Len(Mllama) - 1)

\* from transformers.models.mllama import processing_mllama as target_module:
\* the attribute of the package when it has one, else the submodule import
target_module(S) ==
    LET pk == import_module(S, MllamaPackage)
        ns == pk.S.mods[pk.obj]
    IN IF "processing_mllama" \in DOMAIN ns
          THEN [ok |-> TRUE, obj |-> ns["processing_mllama"], S |-> pk.S]
          ELSE import_module(pk.S, Mllama)

\* tempfile.NamedTemporaryFile(delete=False): a file under a name no existing
\* file has
NamedTemporaryFile(files) == CHOOSE f \in 1..(Cardinality(files) + 1) : f \notin files

\* "finally: os.unlink(tmp_file_path)"
Unlink(files, tmp_file_path) == files \ {tmp_file_path}

\* what the file beside the scripts may hold when simple_patch reads it: the
\* shipped text, and one with an import the five replacements do not cover
SimpleTexts ==
    { FileText(SiblingFile),
      << "from", "...processing_utils", "import", "ProcessorMixin", "\n",
         "MllamaProcessor", "=", "custom", "\n" >> }

\* text: what f.read() returns; files: the temporary files that exist;
\* write_ok: whether tmp_file.write(content) succeeds
patch_mllama_processor_simple(S, text, files, write_ok) ==
    LET t == import_module(S, <<"transformers">>)
        g == target_module(t.S)
        content == RewriteImports(text)
        custom == LoadFile(content)
        backup == Snapshot(g.S.mods[g.obj])
        patched == DictPut(DictPut(Transplant(g.S.mods[g.obj], custom.namespace),
                                   "_runtime_patched", "True"),
                           "_backup", backup)
        tmp_file_path == NamedTemporaryFile(files)
        created == files \cup {tmp_file_path}
        NoFile(r) == r @@ [files |-> files, tmp_file_path |-> 0]
        Finally(r) == r @@ [files |-> Unlink(created, tmp_file_path),
                            tmp_file_path |-> tmp_file_path]
    IN IF ~g.ok THEN NoFile(Failed(t.S, "TargetUnresolvable", "ImportError"))
       ELSE IF ~FileExists(SiblingFile)
          THEN NoFile(Failed(g.S, "MissingSourceFile", "FileNotFoundError"))
       ELSE IF ~write_ok
          THEN Failed(g.S, "TempWriteFailure", "OSError")
               \* the with block of lines 61-63 is left before the try of
               \* line 65 is entered: no unlink
               @@ [files |-> created,
                   tmp_file_path |-> tmp_file_path]
       ELSE IF ~custom.ok
          THEN Finally(Failed(g.S, "LoadExecutionFailure", "ImportError"))
       ELSE Finally(Succeeded([g.S EXCEPT !.mods[g.obj] = patched]))

restore_mllama_processor_simple(S) ==
    LET g == target_module(S)
        ns == g.S.mods[g.obj]
    IN IF ~g.ok THEN Failed(S, "TargetUnresolvable", "ImportError")
       ELSE IF "_runtime_patched" \notin DOMAIN ns
          THEN Failed(g.S, "AlreadyUnpatched", "none")
       ELSE IF "_backup" \notin DOMAIN ns THEN Failed(g.S, "NoBackupAvailable", "none")
       ELSE Succeeded(
              [g.S EXCEPT !.mods[g.obj] =
                  DictDel(DictDel(RestoreAttrs(ns, ns["_backup"]),
                                  "_runtime_patched"), "_backup")])

verify_patch_simple(S) ==
    LET g == target_module(S)
    IN g.ok /\ "_runtime_patched" \in DOMAIN g.S.mods[g.obj]

----------------------------------------------------------------------------
(* runtime_patch.py *)

\* what the file beside the scripts may hold when runtime_patch reads it: the
\* copy of the library's file with its relative imports, the same with
\* absolute imports, a file that defines the processor only, a file that
\* defines names the library module does not have
SiblingTexts ==
    { FileText(SiblingFile),
      RewriteImports(FileText(SiblingFile)),
      << "MllamaProcessor", "=", "custom", "\n" >>,
      FileText("extra.py") }

\* import transformers.models.mllama.processing_mllama as original_module:
\* the module is imported, then bound through the attribute of its package
import_as(S) ==
    LET i == import_module(S, Mllama)
        pk == i.S.mods[i.S.sys[MllamaPackage]]
    IN IF "processing_mllama" \in DOMAIN pk
          THEN [ok |-> TRUE, obj |-> pk["processing_mllama"], S |-> i.S]
          ELSE i

\* original_module._original_backup: of the public names of the custom
\* module, those the original module has, with their values
BackupOfReplaced(original_ns, custom_ns) ==
    [n \in PublicNames(custom_ns) \cap (DOMAIN original_ns) |-> original_ns[n]]

\* patch_mllama_processor() of runtime_patch.py, text being what the sibling
\* file holds
runtime_patch_mllama_processor(S, text) ==
    LET custom == LoadFile(text)
        g == import_as(S)
        ns == g.S.mods[g.obj]
        patched == DictPut(Transplant(ns, custom.namespace), "_original_backup",
                           BackupOfReplaced(ns, custom.namespace))
    IN IF ~FileExists(SiblingFile)
          THEN Failed(S, "MissingSourceFile", "FileNotFoundError")
       ELSE IF ~custom.ok THEN Failed(S, "LoadExecutionFailure", "ImportError")
       ELSE IF ~g.ok THEN Failed(S, "TargetUnresolvable", "ImportError")
       ELSE Succeeded([g.S EXCEPT !.mods[g.obj] = patched,
                                  !.sys = DictPut(@, Mllama, g.obj)])

\* restore_original_processor()
restore_original_processor(S) ==
    LET g == import_as(S)
        ns == g.S.mods[g.obj]
    IN IF ~g.ok THEN Failed(S, "TargetUnresolvable", "ImportError")
       ELSE IF "_original_backup" \notin DOMAIN ns
          THEN Failed(g.S, "NoBackupAvailable", "none")
       ELSE Succeeded(
              [g.S EXCEPT !.mods[g.obj] =
                  DictDel(RestoreAttrs(ns, ns["_original_backup"]), "_original_backup")])

----------------------------------------------------------------------------
(* The decorators with_custom_processor *)

\* how the wrapped function ends
CallKinds == {"return", "raise"}

\* "finally: if patch_success: pass" of fixed_patch.py, the call of
\* restore_mllama_processor() being commented out
cleanup(S, patch_success) == S

\* the same of runtime_patch.py, the call of restore_original_processor()
\* being commented out
runtime_cleanup(S, patch_success) == S

----------------------------------------------------------------------------
(* patch_example.py: the scoped context *)

\* custom_file_path=None stands for the file beside the script
DefaultPath(custom_file_path) ==
    IF custom_file_path = "None" THEN SiblingFile ELSE custom_file_path

ExitKinds == {"normal", "raise", "return"}

\* "finally: if patch_applied:" runs however the body was left
RestoreOnNormalExit(patch_applied, kind) == patch_applied /\ kind = "normal"

ShouldRestore(patch_applied, kind) == patch_applied

----------------------------------------------------------------------------
(* History variables *)

NoRun == [count |-> 0, backed |-> FALSE, attrs |-> EmptyDict, obj |-> 0]

NoEntry == [patched |-> {}, pending |-> {}, before |-> EmptyDict]

\* the public attributes module_path resolves to when an apply starts
AttrsAtApply(S, module_path) ==
    LET i == import_module(import_module(S, <<"transformers">>).S, module_path)
    IN IF i.ok THEN PublicAttrs(i.S.mods[i.obj]) ELSE EmptyDict

\* the module object an apply on module_path patches
TargetAtApply(S, module_path) ==
    import_module(import_module(S, <<"transformers">>).S, module_path).obj

\* first, after a successful apply of manager self on module_path
RunAfterApply(self, module_path, backup) ==
    LET run ==
          IF "first" \notin recording THEN NoRun
          ELSE IF first[self][module_path].count = 0
              THEN [count |-> 1, backed |-> backup,
                    attrs |-> IF backup THEN AttrsAtApply(Now, module_path)
                                        ELSE EmptyDict,
                    obj |-> 0]
              ELSE [first[self][module_path] EXCEPT
                      !.count = IF @ < MaxApplies THEN @ + 1 ELSE @]
    IN IF "obj" \in recording
          THEN [run EXCEPT !.obj = TargetAtApply(Now, module_path)]
          ELSE run

\* entry, after entry point e patched the mllama module
EntryAfterApply(e) ==
    IF "entry" \notin recording THEN NoEntry
    ELSE IF entry.pending = {}
        THEN [patched |-> {e}, pending |-> {e}, before |-> AttrsAtApply(Now, Mllama)]
        ELSE [entry EXCEPT !.patched = @ \cup {e}, !.pending = @ \cup {e}]

\* what an apply had before it: the public attributes of the target and
\* those of the replacement module
FrameAtApply(module_path, custom_file_path, r) ==
    IF "frame" \in recording /\ r.result
        THEN [before |-> AttrsAtApply(Now, module_path),
              custom |-> PublicAttrs(LoadFile(FileText(custom_file_path)).namespace)]
        ELSE [before |-> EmptyDict, custom |-> EmptyDict]

\* the caller's mapping no longer shares the records the manager replaced
\* or deleted
Detach(self, paths) ==
    IF listed.self # self THEN listed
    ELSE [listed EXCEPT !.entries =
            [p \in DOMAIN @ |-> IF p \in paths THEN [@[p] EXCEPT !.shared = FALSE] ELSE @[p]]]

Commit(S) ==
    /\ sysmodules' = S.sys
    /\ heap' = S.heap
    /\ modules' = S.mods
    /\ applied_patches' = S.applied
    /\ backup_modules' = S.backups

----------------------------------------------------------------------------
(* The state after the scripts are imported: nothing of transformers is
   loaded yet, the host has registered pkg.mod, fixed_patch's global
   manager and any other manager are empty. *)

InitRecording(histories) ==
    /\ recording = histories
    /\ tmpfiles = {}
    /\ nested = [pc |-> "outside", patch_applied |-> FALSE]
    /\ sysmodules = (PkgMod :> 1)
    /\ heap = {1}
    /\ modules = [o \in Objs |-> IF o = 1 THEN OriginalAttrs(PkgMod) ELSE EmptyDict]
    /\ applied_patches = [m \in Mgrs |-> << >>]
    /\ backup_modules = [m \in Mgrs |-> EmptyDict]
    /\ listed = [self |-> "global", entries |-> EmptyDict]
    /\ scope = [pc |-> "outside", patch_applied |-> FALSE, yielded |-> FALSE,
                restores |-> 0, kind |-> "normal", file |-> "None"]
    /\ entry = NoEntry
    /\ first = [m \in Mgrs |-> [p \in Paths |-> NoRun]]
    /\ last = [op |-> "init", self |-> "global", module_path |-> Mllama,
               file |-> "None", result |-> FALSE, info |-> EmptyDict]

Init == InitRecording({"first"})

----------------------------------------------------------------------------
(* Calls on a manager *)

Called(op, self, module_path, file, result, info) ==
    [op |-> op, self |-> self, module_path |-> module_path, file |-> file,
     result |-> result, info |-> info]

\* what an apply by manager self leaves behind, r being its outcome
Applied(self, module_path, custom_file_path, backup, r) ==
    /\ Commit(r.S)
    /\ listed' = IF r.result THEN Detach(self, {module_path}) ELSE listed
    /\ first' = IF r.result
                  THEN [first EXCEPT ![self][module_path] =
                                        RunAfterApply(self, module_path, backup)]
                  ELSE first
    /\ entry' = IF r.result /\ module_path = Mllama THEN EntryAfterApply(self) ELSE entry
    /\ last' = Called("apply", self, module_path, custom_file_path, r.result,
                      [backup |-> backup, error |-> r.error, raised |-> r.raised,
                       patched_before |-> module_path \in Keys(applied_patches[self]),
                       frame |-> FrameAtApply(module_path, custom_file_path, r)])

\* what a restore by manager self leaves behind, r being its outcome
Restored(self, module_path, r) ==
    /\ Commit(r.S)
    /\ listed' = IF r.result THEN Detach(self, {module_path}) ELSE listed
    /\ first' = IF r.result THEN [first EXCEPT ![self][module_path] = NoRun] ELSE first
    /\ entry' = IF r.result /\ module_path = Mllama
                  THEN [entry EXCEPT !.pending = @ \ {self}]
                  ELSE entry
    /\ last' = Called("restore", self, module_path, "None", r.result,
                 [error |-> r.error, raised |-> r.raised,
                  run |-> first[self][module_path],
                  after_failed_apply |->
                      /\ last.op = "apply" /\ ~last.result
                      /\ last.self = self /\ last.module_path = module_path,
                  had_backup |->
                      /\ module_path \in Keys(applied_patches[self])
                      /\ Get(applied_patches[self], module_path).backup_available,
                  snapshot |->
                      IF module_path \in DOMAIN backup_modules[self]
                          THEN backup_modules[self][module_path]
                          ELSE EmptyDict])

\* patcher.patch_module_from_file(module_path, custom_file_path, backup)
Apply(self, module_path, custom_file_path, backup) ==
    /\ HeapRoom(Now, module_path)
    /\ Applied(self, module_path, custom_file_path, backup,
               patch_module_from_file(Now, self, module_path, custom_file_path, backup))
    /\ UNCHANGED <<scope, recording, tmpfiles, nested>>

\* patcher.patch_mllama_processor(custom_file_path), and the module-level
\* function of the same name on the global manager
PatchMllama(self, custom_file_path) ==
    /\ HeapRoom(Now, Mllama)
    /\ Applied(self, Mllama, DefaultPath(custom_file_path), TRUE,
               patch_mllama_processor(Now, self, DefaultPath(custom_file_path)))
    /\ UNCHANGED <<scope, recording, tmpfiles, nested>>

\* patcher.restore_module(module_path); restore_mllama_processor() is the
\* call on the global manager with the mllama path
Restore(self, module_path) ==
    /\ Restored(self, module_path, restore_module(Now, self, module_path))
    /\ UNCHANGED <<scope, recording, tmpfiles, nested>>

\* patcher.restore_all()
RestoreAll(self) ==
    LET r == restore_all(Now, self)
        ok == {r.done[j].module_path : j \in {k \in 1..Len(r.done) : r.done[k].result}}
    IN /\ Commit(r.S)
       /\ listed' = Detach(self, ok)
       /\ first' = [first EXCEPT ![self] = [p \in Paths |-> IF p \in ok THEN NoRun ELSE @[p]]]
       /\ entry' = IF Mllama \in ok THEN [entry EXCEPT !.pending = @ \ {self}] ELSE entry
       /\ last' = Called("restore_all", self, Mllama, "None", r.result,
                         [keys_before |-> KeyList(applied_patches[self]), done |-> r.done])
       /\ UNCHANGED <<scope, recording, tmpfiles, nested>>

\* patcher.verify_patch(module_path)
Verify(self, module_path) ==
    /\ last' = Called("verify", self, module_path, "None",
                      verify_patch(Now, module_path), EmptyDict)
    /\ UNCHANGED <<sysmodules, heap, modules, applied_patches, backup_modules,
                   listed, scope, entry, first, recording, tmpfiles, nested>>

\* patches = patcher.list_patches()
ListPatches(self) ==
    /\ listed' = [self |-> self, entries |-> list_patches(Now, self)]
    /\ last' = Called("list_patches", self, Mllama, "None", TRUE, EmptyDict)
    /\ UNCHANGED <<sysmodules, heap, modules, applied_patches, backup_modules,
                   scope, entry, first, recording, tmpfiles, nested>>

----------------------------------------------------------------------------
(* What a caller does with the mapping list_patches returned *)

\* patches[module_path]['backup_available'] = b
CallerSetFlag(module_path, b) ==
    /\ module_path \in DOMAIN listed.entries
    /\ listed' = [listed EXCEPT !.entries[module_path].value.backup_available = b]
    /\ applied_patches' =
         IF listed.entries[module_path].shared
             THEN [applied_patches EXCEPT ![listed.self] =
                     Put(@, module_path,
                         [Get(@, module_path) EXCEPT !.backup_available = b])]
             ELSE applied_patches
    /\ last' = Called("caller_set", listed.self, module_path, "None", TRUE, EmptyDict)
    /\ UNCHANGED <<sysmodules, heap, modules, backup_modules, scope, entry, first,
                   recording, tmpfiles, nested>>

\* del patches[module_path]
CallerRemove(module_path) ==
    /\ module_path \in DOMAIN listed.entries
    /\ listed' = [listed EXCEPT !.entries = DictDel(@, module_path)]
    /\ last' = Called("caller_del", listed.self, module_path, "None", TRUE, EmptyDict)
    /\ UNCHANGED <<sysmodules, heap, modules, applied_patches, backup_modules,
                   scope, entry, first, recording, tmpfiles, nested>>

\* patches[module_path] = {...}, a record of the caller's own
CallerAdd(module_path) ==
    /\ module_path \notin DOMAIN listed.entries
    /\ listed' = [listed EXCEPT !.entries =
                    DictPut(@, module_path,
                        [shared |-> FALSE,
                         value |-> [source_file |-> "None", patch_count |-> 0,
                                    backup_available |-> FALSE]])]
    /\ last' = Called("caller_add", listed.self, module_path, "None", TRUE, EmptyDict)
    /\ UNCHANGED <<sysmodules, heap, modules, applied_patches, backup_modules,
                   scope, entry, first, recording, tmpfiles, nested>>

----------------------------------------------------------------------------
(* The functions of simple_patch.py *)

SimplePatch(text, write_ok) ==
    /\ HeapRoom(Now, Mllama)
    /\ write_ok \/ Cardinality(tmpfiles) < MaxTmpFiles
    /\ LET r == patch_mllama_processor_simple(Now, text, tmpfiles, write_ok)
       IN /\ Commit(r.S)
          /\ tmpfiles' = r.files
          /\ entry' = IF r.result THEN EntryAfterApply("simple") ELSE entry
          /\ last' = Called("simple_apply", "simple", Mllama, SiblingFile, r.result,
                            [error |-> r.error, raised |-> r.raised,
                             tmp_file_path |-> r.tmp_file_path])
    /\ UNCHANGED <<listed, scope, first, recording, nested>>

SimpleRestore ==
    /\ HeapRoom(Now, Mllama)
    /\ LET r == restore_mllama_processor_simple(Now)
       IN /\ Commit(r.S)
          /\ entry' = IF r.result THEN [entry EXCEPT !.pending = @ \ {"simple"}] ELSE entry
          /\ last' = Called("simple_restore", "simple", Mllama, "None", r.result,
                            [marked |-> verify_patch_simple(Now),
                             error |-> r.error, raised |-> r.raised])
    /\ UNCHANGED <<listed, scope, first, recording, tmpfiles, nested>>

SimpleVerify ==
    /\ HeapRoom(Now, Mllama)
    /\ Commit(target_module(Now).S)
    /\ last' = Called("simple_verify", "simple", Mllama, "None",
                      verify_patch_simple(Now), EmptyDict)
    /\ UNCHANGED <<listed, scope, entry, first, recording, tmpfiles, nested>>

\* lines 32-55 of patch_mllama_processor_simple on a file holding content;
\* the result depends on content alone, so a behaviour rewrites one text
Rewrite(content) ==
    /\ last.op = "init"
    /\ last' = Called("rewrite", "simple", Mllama, SiblingFile, TRUE,
                      [content |-> content, rewritten |-> RewriteImports(content)])
    /\ UNCHANGED <<sysmodules, heap, modules, applied_patches, backup_modules,
                   listed, scope, entry, first, recording, tmpfiles, nested>>

----------------------------------------------------------------------------
(* The functions of runtime_patch.py *)

\* the public attributes import_as resolves to
RuntimeAttrs(S) ==
    LET g == import_as(S) IN PublicAttrs(g.S.mods[g.obj])

\* whether the module import_as resolves to holds a backup
RuntimeBackedUp(S) ==
    LET g == import_as(S) IN "_original_backup" \in DOMAIN g.S.mods[g.obj]

RuntimePatch(text) ==
    /\ HeapRoom(Now, Mllama)
    /\ LET r == runtime_patch_mllama_processor(Now, text)
       IN /\ Commit(r.S)
          /\ last' = Called("runtime_apply", "runtime", Mllama, SiblingFile, r.result,
                            [error |-> r.error, raised |-> r.raised,
                             before |-> RuntimeAttrs(Now),
                             patched_before |-> RuntimeBackedUp(Now)])
    /\ UNCHANGED <<listed, scope, entry, first, recording, tmpfiles, nested>>

RuntimeRestore ==
    /\ HeapRoom(Now, Mllama)
    /\ LET r == restore_original_processor(Now)
       IN /\ Commit(r.S)
          /\ last' = Called("runtime_restore", "runtime", Mllama, "None", r.result,
                            [error |-> r.error, raised |-> r.raised])
    /\ UNCHANGED <<listed, scope, entry, first, recording, tmpfiles, nested>>

----------------------------------------------------------------------------
(* Calls of a function decorated with with_custom_processor *)

\* fixed_patch.with_custom_processor(custom_file_path)(func)(): the patch
\* through the global manager, func, which ends by kind, the finally clause
WrappedCall(custom_file_path, kind) ==
    /\ HeapRoom(Now, Mllama)
    /\ LET r == patch_mllama_processor(Now, "global", DefaultPath(custom_file_path))
       IN /\ Commit(cleanup(r.S, r.result))
          /\ listed' = IF r.result THEN Detach("global", {Mllama}) ELSE listed
          /\ first' = IF r.result
                        THEN [first EXCEPT !["global"][Mllama] =
                                              RunAfterApply("global", Mllama, TRUE)]
                        ELSE first
          /\ entry' = IF r.result THEN EntryAfterApply("global") ELSE entry
          /\ last' = Called("wrapped_call", "global", Mllama,
                            DefaultPath(custom_file_path), r.result,
                            [kind |-> kind, patch_success |-> r.result])
    /\ UNCHANGED <<scope, recording, tmpfiles, nested>>

\* runtime_patch.with_custom_processor(func)()
RuntimeWrappedCall(text, kind) ==
    /\ HeapRoom(Now, Mllama)
    /\ LET r == runtime_patch_mllama_processor(Now, text)
       IN /\ Commit(runtime_cleanup(r.S, r.result))
          /\ last' = Called("runtime_wrapped_call", "runtime", Mllama, SiblingFile,
                            r.result, [kind |-> kind, patch_success |-> r.result])
    /\ UNCHANGED <<listed, scope, entry, first, recording, tmpfiles, nested>>

----------------------------------------------------------------------------
(* Other code of the process acting on the module registry *)

\* sys.modules[module_path] = a module object of its own
EnvReplace(module_path) ==
    /\ module_path \in DOMAIN sysmodules
    /\ heap # Objs
    /\ LET o == Fresh(heap)
       IN /\ sysmodules' = DictPut(sysmodules, module_path, o)
          /\ heap' = heap \cup {o}
          /\ modules' = [modules EXCEPT ![o] = OriginalAttrs(module_path)]
    /\ last' = Called("env_replace", "global", module_path, "None", TRUE, EmptyDict)
    /\ UNCHANGED <<applied_patches, backup_modules, listed, scope, entry, first,
                   recording, tmpfiles, nested>>

\* del sys.modules[module_path]
EnvRemove(module_path) ==
    /\ module_path \in DOMAIN sysmodules
    /\ sysmodules' = DictDel(sysmodules, module_path)
    /\ last' = Called("env_remove", "global", module_path, "None", TRUE, EmptyDict)
    /\ UNCHANGED <<heap, modules, applied_patches, backup_modules, listed, scope,
                   entry, first, recording, tmpfiles, nested>>

----------------------------------------------------------------------------
(* with patched_mllama_processor(custom_file_path) as patch_success: ... *)

\* up to the yield: a new manager, the apply, its result handed to the body
ScopeEnter(custom_file_path) ==
    /\ scope.pc # "body"
    /\ HeapRoom(Now, Mllama)
    /\ LET S0 == [Now EXCEPT !.applied["scope"] = << >>, !.backups["scope"] = EmptyDict]
           r == patch_mllama_processor(S0, "scope", DefaultPath(custom_file_path))
       IN /\ Commit(r.S)
          /\ scope' = [pc |-> "body", patch_applied |-> r.result, yielded |-> r.result,
                       restores |-> 0, kind |-> "normal",
                       file |-> DefaultPath(custom_file_path)]
          /\ nested' = [pc |-> "outside", patch_applied |-> FALSE]
          /\ first' = [first EXCEPT !["scope"] =
                        [p \in Paths |->
                            IF p = Mllama /\ r.result /\ "first" \in recording
                                THEN [count |-> 1, backed |-> TRUE,
                                      attrs |-> AttrsAtApply(Now, Mllama),
                                      obj |-> 0]
                                ELSE NoRun]]
          /\ entry' = IF r.result THEN EntryAfterApply("scope") ELSE entry
          /\ last' = Called("apply", "scope", Mllama, DefaultPath(custom_file_path),
                            r.result,
                            [backup |-> TRUE, error |-> r.error, raised |-> r.raised])
    /\ UNCHANGED <<listed, recording, tmpfiles>>

\* the finally clause, entered however the body ended
ScopeExit(kind) ==
    /\ scope.pc = "body"
    /\ nested.pc # "body"
    /\ IF ShouldRestore(scope.patch_applied, kind)
         THEN /\ Restored("scope", Mllama, restore_module(Now, "scope", Mllama))
              /\ UNCHANGED <<recording, tmpfiles, nested>>
              /\ scope' = [scope EXCEPT !.pc = "exited", !.kind = kind,
                                        !.restores = @ + 1]
         ELSE /\ scope' = [scope EXCEPT !.pc = "exited", !.kind = kind]
              /\ last' = Called("scope_exit", "scope", Mllama, "None", FALSE, EmptyDict)
              /\ UNCHANGED <<sysmodules, heap, modules, applied_patches,
                             backup_modules, listed, entry, first, recording, tmpfiles,
                             nested>>

\* "with patched_mllama_processor(...)" in the body of another: the inner
\* generator constructs a manager of its own
NestedEnter(custom_file_path) ==
    /\ scope.pc = "body"
    /\ nested.pc # "body"
    /\ HeapRoom(Now, Mllama)
    /\ LET S0 == [Now EXCEPT !.applied["instance"] = << >>,
                             !.backups["instance"] = EmptyDict]
           r == patch_mllama_processor(S0, "instance", DefaultPath(custom_file_path))
       IN /\ Commit(r.S)
          /\ nested' = [pc |-> "body", patch_applied |-> r.result]
          /\ last' = Called("apply", "instance", Mllama, DefaultPath(custom_file_path),
                            r.result,
                            [backup |-> TRUE, error |-> r.error, raised |-> r.raised])
    /\ UNCHANGED <<listed, scope, entry, first, recording, tmpfiles>>

NestedExit(kind) ==
    /\ nested.pc = "body"
    /\ IF ShouldRestore(nested.patch_applied, kind)
         THEN /\ Restored("instance", Mllama, restore_module(Now, "instance", Mllama))
              /\ UNCHANGED <<scope, recording, tmpfiles>>
         ELSE /\ last' = Called("scope_exit", "instance", Mllama, "None", FALSE, EmptyDict)
              /\ UNCHANGED <<sysmodules, heap, modules, applied_patches,
                             backup_modules, listed, scope, entry, first, recording,
                             tmpfiles>>
    /\ nested' = [nested EXCEPT !.pc = "exited"]

----------------------------------------------------------------------------
(* Specifications *)

BOOL == {TRUE, FALSE}

\* one manager: pkg.mod patched from any file with or without a backup, the
\* mllama module through the convenience method
Next ==
    \/ \E f \in Files, b \in BOOL : Apply("global", PkgMod, f, b)
    \/ \E f \in {"None", "extra.py"} : PatchMllama("global", f)
    \/ \E p \in Paths : Restore("global", p)
    \/ RestoreAll("global")

Spec == Init /\ [][Next]_vars

\* one manager in a process whose other code replaces and removes registry
\* entries
NextEnv ==
    \/ \E p \in Paths, f \in {"missing.py", "foo2.py"} : Apply("global", p, f, TRUE)
    \/ PatchMllama("global", "None")
    \/ \E p \in Paths : Restore("global", p)
    \/ \E p \in Paths : Verify("global", p)
    \/ \E p \in Paths : EnvReplace(p)
    \/ \E p \in Paths : EnvRemove(p)

SpecEnv == InitRecording({}) /\ [][NextEnv]_vars

\* the mllama module patched through the simple functions and the global
\* manager, with restores by a manager of the caller's own
NextEntries ==
    \/ SimplePatch(FileText(SiblingFile), TRUE)
    \/ SimpleRestore
    \/ SimpleVerify
    \/ \E f \in {"None", "extra.py"} : PatchMllama("global", f)
    \/ Restore("global", Mllama)
    \/ Restore("instance", Mllama)

SpecEntries == InitRecording({"entry"}) /\ [][NextEntries]_vars

\* the scoped context, its body using the global manager
NextScope ==
    \/ \E f \in Files \cup {"None"} : ScopeEnter(f)
    \/ \E k \in ExitKinds : ScopeExit(k)
    \/ \E f \in Files : PatchMllama("global", f)
    \/ Restore("global", Mllama)
    \/ Verify("global", Mllama)

SpecScope == InitRecording({}) /\ [][NextScope]_vars

\* a scoped context entered in the body of another, the body checking the
\* patch
NextNested ==
    \/ \E f \in Files \cup {"None"} : ScopeEnter(f)
    \/ \E k \in ExitKinds : ScopeExit(k)
    \/ \E f \in Files \cup {"None"} : NestedEnter(f)
    \/ \E k \in ExitKinds : NestedExit(k)
    \/ Verify("global", Mllama)

SpecNested == InitRecording({"first"}) /\ [][NextNested]_vars

\* a caller that keeps and edits what list_patches returned
NextCaller ==
    \/ \E p \in Paths, b \in BOOL : Apply("global", p, "foo2.py", b)
    \/ \E p \in Paths : Restore("global", p)
    \/ ListPatches("global")
    \/ \E p \in Paths, b \in BOOL : CallerSetFlag(p, b)
    \/ \E p \in Paths : CallerRemove(p)
    \/ \E p \in Paths : CallerAdd(p)

SpecCaller == InitRecording({}) /\ [][NextCaller]_vars

\* one manager, each apply remembered with what the target and the
\* replacement held
SpecFrame == InitRecording({"frame"}) /\ [][Next]_vars

\* one manager whose targets other code replaces in the registry, each apply
\* remembered with the module object it patched
NextRegistry ==
    \/ \E p \in Paths : Apply("global", p, "foo2.py", TRUE)
    \/ \E p \in Paths : Restore("global", p)
    \/ \E p \in Paths : EnvReplace(p)

SpecRegistry == InitRecording({"obj"}) /\ [][NextRegistry]_vars

\* the import rewriting on every text of a few statements
NextRewrite == \E content \in Texts : Rewrite(content)

SpecRewrite == InitRecording({}) /\ [][NextRewrite]_vars

\* functions decorated with with_custom_processor, beside the restore and
\* verify functions of the two scripts
NextDecorator ==
    \/ \E f \in {"None", "foo2.py", "extra.py"}, k \in CallKinds : WrappedCall(f, k)
    \/ \E text \in SiblingTexts, k \in CallKinds : RuntimeWrappedCall(text, k)
    \/ Restore("global", Mllama)
    \/ Verify("global", Mllama)
    \/ RuntimeRestore

SpecDecorator == InitRecording({}) /\ [][NextDecorator]_vars

\* the functions of runtime_patch.py on the mllama module, a manager on
\* pkg.mod
NextRuntime ==
    \/ \E text \in SiblingTexts : RuntimePatch(text)
    \/ RuntimeRestore
    \/ \E f \in Files, b \in BOOL : Apply("global", PkgMod, f, b)
    \/ Restore("global", PkgMod)

SpecRuntime == InitRecording({"frame"}) /\ [][NextRuntime]_vars

\* every way an apply or a restore can fail: files that are missing or do not
\* load, records without backup, registry entries removed by other code
NextErrors ==
    \/ \E f \in {"missing.py", "foo2.py"}, b \in BOOL : Apply("global", PkgMod, f, b)
    \/ PatchMllama("global", "None")
    \/ \E p \in Paths : Restore("global", p)
    \/ EnvRemove(PkgMod)
    \/ \E write_ok \in BOOL : SimplePatch(FileText(SiblingFile), write_ok)
    \/ SimpleRestore

SpecErrors == InitRecording({}) /\ [][NextErrors]_vars

\* simple_patch.py on a sibling file of either content, with writes to the
\* temporary file that succeed or fail, beside the global manager
NextTemp ==
    \/ \E text \in SimpleTexts, write_ok \in BOOL : SimplePatch(text, write_ok)
    \/ SimpleRestore
    \/ \E f \in {"foo2.py", "extra.py"} : Apply("global", Mllama, f, TRUE)
    \/ Restore("global", Mllama)

SpecTemp == InitRecording({}) /\ [][NextTemp]_vars

----------------------------------------------------------------------------
(* Properties *)

\* the public attributes of the module registered under module_path
LiveAttrs(module_path) == PublicAttrs(modules[sysmodules[module_path]])

\* C1: after two successive successful applies of one manager on one path,
\* the first of which took a snapshot, the snapshot the manager holds is
\* the one the first apply took: the public attributes the target had before
\* any patch.
C1_IdempotentBackup ==
    \A self \in Mgrs, p \in Paths :
        ( /\ first[self][p].count >= 2
          /\ first[self][p].backed
          /\ p \in DOMAIN backup_modules[self] )
        => backup_modules[self][p] = first[self][p].attrs

\* C2: a successful restore that follows exactly one successful apply leaves
\* the target with exactly the public attribute names and values it had
\* before the apply.
C2_RoundTrip ==
    ( /\ last.op = "restore"
      /\ last.result
      /\ last.info.run.count = 1 )
    => LiveAttrs(last.module_path) = last.info.run.attrs

\* C3: right after a successful apply verify_patch returns true for the
\* path, right after a successful restore it returns false.
C3_MarkerConsistency ==
    /\ (last.op = "apply" /\ last.result) => verify_patch(Now, last.module_path)
    /\ (last.op = "restore" /\ last.result) => ~verify_patch(Now, last.module_path)

\* a restore succeeded on a module object that other code registered in
\* place of the one the process started with
C3_Witness ==
    /\ last.op = "restore"
    /\ last.result
    /\ last.module_path = PkgMod
    /\ sysmodules[PkgMod] # 1

\* C4: a restore that directly follows a failed apply on a path whose record
\* has a backup returns success and leaves the target with every value of
\* the snapshot.
C4_FailureLeavesBackupIntact ==
    ( /\ last.op = "restore"
      /\ last.info.after_failed_apply
      /\ last.info.had_backup )
    => /\ last.result
       /\ last.module_path \in DOMAIN sysmodules
       /\ \A a \in DOMAIN last.info.snapshot :
            /\ a \in DOMAIN modules[sysmodules[last.module_path]]
            /\ modules[sysmodules[last.module_path]][a] = last.info.snapshot[a]

\* C5: an apply whose replacement file does not exist returns false and
\* changes neither the registry, nor any module object (attributes and
\* markers), nor the manager's records and snapshots; when the manager had no
\* record for the path, verify_patch is false afterwards.
C5_MissingFileNoChange ==
    [][ (last'.op = "apply" /\ last'.file = "missing.py")
        => /\ ~last'.result
           /\ UNCHANGED <<sysmodules, heap, modules, applied_patches, backup_modules>>
           /\ \A p \in Paths :
                ( /\ last'.module_path = p
                  /\ p \notin Keys(applied_patches[last'.self]) )
                => ~verify_patch(Now, p)' ]_vars

C5_Witness ==
    /\ last.op = "apply"
    /\ last.file = "missing.py"
    /\ ~last.result
    /\ last.module_path \in Keys(applied_patches[last.self])

\* C6: a restore by a manager that has no record for the path, and a simple
\* restore of a module without the marker, return false and change neither
\* the records, nor the snapshots, nor any attribute of the target.
C6_RestoreUnpatchedNoChange ==
    [][ /\ ( /\ last'.op = "restore"
             /\ last'.module_path \notin Keys(applied_patches[last'.self]) )
           => /\ ~last'.result
              /\ UNCHANGED <<sysmodules, modules, applied_patches, backup_modules>>
        /\ (last'.op = "simple_restore" /\ ~last'.info.marked)
           => /\ ~last'.result
              /\ UNCHANGED <<applied_patches, backup_modules>>
              /\ \A o \in heap : modules'[o] = modules[o]
              /\ LET g == target_module(Now)
                 IN modules'[g.obj] = g.S.mods[g.obj] ]_vars

C6_Witness ==
    /\ last.op = "restore"
    /\ ~last.result
    /\ last.module_path \notin Keys(applied_patches[last.self])
    /\ verify_patch(Now, last.module_path)

\* C7: inside the body no restore has been called and the body holds the
\* result of the apply; once the scope is left, by whatever kind of exit,
\* restore has been called once if the apply succeeded and not at all if it
\* failed.
C7_ScopeRestoresOnce ==
    /\ scope.pc = "body"
         => /\ scope.restores = 0
            /\ (last.op = "apply" /\ last.self = "scope") => scope.yielded = last.result
    /\ scope.pc = "exited"
         => scope.restores = (IF scope.yielded THEN 1 ELSE 0)

C7_Witness ==
    /\ scope.pc = "exited"
    /\ scope.kind = "raise"
    /\ scope.yielded
    /\ scope.restores = 1

C9_RestoreAll ==
    last.op = "restore_all"
        => LET done == last.info.done
           IN /\ [j \in 1..Len(done) |-> done[j].module_path] = last.info.keys_before
              /\ last.result = (\A j \in 1..Len(done) : done[j].result)
              /\ Keys(applied_patches[last.self])
                    = {done[j].module_path : j \in {k \in 1..Len(done) : ~done[k].result}}

C9_Witness ==
    /\ last.op = "restore_all"
    /\ Len(last.info.done) = 2
    /\ ~last.info.done[1].result
    /\ last.info.done[2].result

\* C10: nothing a caller does to the mapping list_patches returned changes
\* the manager's records.
C10_ListPatchesReadOnly ==
    [][ last'.op \in {"caller_set", "caller_del", "caller_add"}
        => UNCHANGED applied_patches ]_vars

C12_ApplyTouchesOnlyTransplanted ==
    (last.op = "apply" /\ last.result)
        => LET before == last.info.frame.before
               custom == last.info.frame.custom
               live == LiveAttrs(last.module_path)
           IN /\ \A n \in (DOMAIN before) \ (DOMAIN custom) :
                    n \in DOMAIN live /\ live[n] = before[n]
              /\ \A n \in DOMAIN custom :
                    n \in DOMAIN live /\ live[n] = custom[n]

\* Scenario A: foo2.py applied to pkg.mod, foo is 2 and bar still "x"
C12_Witness ==
    /\ last.op = "apply"
    /\ last.result
    /\ last.module_path = PkgMod
    /\ last.file = "foo2.py"
    /\ last.info.frame.before = ("foo" :> "1") @@ ("bar" :> "x")
    /\ LiveAttrs(PkgMod) = ("foo" :> "2") @@ ("bar" :> "x")
    /\ verify_patch(Now, PkgMod)

\* a relative module reference: the count of its leading dots and the
\* dotted name after them
RelativeImports ==
    ("...feature_extraction_utils" :> [level |-> 3, tail |-> <<"feature_extraction_utils">>])
    @@ ("...image_utils" :> [level |-> 3, tail |-> <<"image_utils">>])
    @@ ("...processing_utils" :> [level |-> 3, tail |-> <<"processing_utils">>])
    @@ ("...tokenization_utils_base" :> [level |-> 3, tail |-> <<"tokenization_utils_base">>])
    @@ (".image_processing_mllama" :> [level |-> 1, tail |-> <<"image_processing_mllama">>])
    @@ ("...util" :> [level |-> 3, tail |-> <<"util">>])

\* each leading dot walks up one package level from the package of the
\* target module, then the remaining name is appended
Resolve(module_path, level, tail) ==
    SubSeq(module_path, 1, Len(module_path) - level) \o tail

\* the dotted spelling of a path
RECURSIVE Dotted(_)
Dotted(path) ==
    IF Len(path) = 1 THEN path[1]
    ELSE path[1] \o "." \o Dotted(Tail(path))

\* the text with every relative import resolved against module_path and
\* everything else verbatim
Resolved(content, module_path) ==
    [i \in 1..Len(content) |->
        IF i > 1 /\ content[i - 1] = "from" /\ content[i] \in DOMAIN RelativeImports
            THEN Dotted(Resolve(module_path, RelativeImports[content[i]].level,
                                RelativeImports[content[i]].tail))
            ELSE content[i]]

\* C13: the rewritten text is the replacement text with every relative
\* import resolved against the target module's package (for a target
\* a.b.c.mod, "from ...util import helper" becomes "from a.util import
\* helper"), the imported names and all other statements verbatim.
C13_RewriterResolvesRelativeImports ==
    last.op = "rewrite"
        => last.info.rewritten = Resolved(last.info.content, last.module_path)

\* C14: when a call of a function wrapped by with_custom_processor is over,
\* by return or by raise, and the patch was applied on entry, the patch has
\* been restored: verify_patch is false and the manager holds no record
\* (fixed_patch), the module holds no backup any more (runtime_patch).
C14_DecoratorCleansUp ==
    /\ (last.op = "wrapped_call" /\ last.info.patch_success)
          => /\ ~verify_patch(Now, Mllama)
             /\ Mllama \notin Keys(applied_patches["global"])
    /\ (last.op = "runtime_wrapped_call" /\ last.info.patch_success)
          => ~RuntimeBackedUp(Now)

\* C17: the snapshot taken by the first apply on an unpatched target holds
\* exactly the public attributes the target had when the apply began, with
\* the values they had then: the snapshot of a manager's apply with backup
\* on a path without record, and the backup runtime_patch leaves on a module
\* that held none.
C17_SnapshotComplete ==
    /\ ( /\ last.op = "apply"
         /\ last.result
         /\ last.info.backup
         /\ ~last.info.patched_before )
          => backup_modules[last.self][last.module_path] = last.info.frame.before
    /\ ( /\ last.op = "runtime_apply"
         /\ last.result
         /\ ~last.info.patched_before )
          => LET g == import_as(Now)
             IN modules[g.obj]["_original_backup"] = last.info.before

\* C15: for every manager, the paths that have a snapshot are the paths that
\* have a record.
C15_LedgerRecordPairing ==
    \A self \in Mgrs : DOMAIN backup_modules[self] = Keys(applied_patches[self])

\* C16: with a single manager and no other code acting on the target or the
\* registry, the module registered under a path carries the marker exactly
\* when the manager holds a record for the path.
C16_MarkerLedgerAgreement ==
    \A p \in Paths :
        verify_patch(Now, p) <=> p \in Keys(applied_patches["global"])

\* a restore failed for want of a backup: the record and the marker both stay
C16_Witness ==
    /\ last.op = "restore"
    /\ ~last.result
    /\ last.info.error = "NoBackupAvailable"
    /\ last.module_path \in Keys(applied_patches["global"])
    /\ verify_patch(Now, last.module_path)

\* C18: a successful restore writes the snapshot values to, and removes the
\* marker from, the module object the manager's last apply on the path
\* patched, and writes to no other module object.
C18_RestoreMutatesPatchedObject ==
    [][ (last'.op = "restore" /\ last'.result)
        => LET o == last'.info.run.obj
               snapshot == last'.info.snapshot
           IN /\ "_runtime_patched" \notin DOMAIN modules'[o]
              /\ \A n \in DOMAIN snapshot :
                    n \in DOMAIN modules'[o] /\ modules'[o][n] = snapshot[n]
              /\ \A q \in Objs \ {o} : modules'[q] = modules[q] ]_vars

\* C19: verify_patch returns whether the module now registered under the
\* path carries the marker, whatever the records say, and changes nothing.
C19_VerifyReadsLiveModule ==
    [][ last'.op = "verify"
        => /\ UNCHANGED <<sysmodules, heap, modules, applied_patches,
                          backup_modules, listed>>
           /\ last'.result =
                ( /\ last'.module_path \in DOMAIN sysmodules
                  /\ "_runtime_patched"
                        \in DOMAIN modules[sysmodules[last'.module_path]] ) ]_vars

\* verify is false for a path list_patches still lists: its registry entry
\* was replaced or removed
C19_Witness ==
    /\ last.op = "verify"
    /\ ~last.result
    /\ last.module_path \in DOMAIN list_patches(Now, "global")

\* C20: when the simple apply returns after it created its temporary file,
\* that file no longer exists, whether the write failed, the load raised or
\* the patch was applied.
C20_TempFileRemoved ==
    (last.op = "simple_apply" /\ last.info.tmp_file_path # 0)
        => last.info.tmp_file_path \notin tmpfiles

\* the five (old, new) pairs of the replace calls
FixedPatterns ==
    << [old |-> << "from", "...feature_extraction_utils", "import", "BatchFeature" >>,
        new |-> << "from", "transformers.feature_extraction_utils", "import",
                   "BatchFeature" >>],
       [old |-> << "from", "...image_utils", "import", "ImageInput" >>,
        new |-> << "from", "transformers.image_utils", "import", "ImageInput" >>],
       [old |-> << "from", "...processing_utils", "import", "ImagesKwargs", ",",
                   "ProcessingKwargs", ",", "ProcessorMixin", ",", "Unpack" >>,
        new |-> << "from", "transformers.processing_utils", "import", "ImagesKwargs",
                   ",", "ProcessingKwargs", ",", "ProcessorMixin", ",", "Unpack" >>],
       [old |-> << "from", "...tokenization_utils_base", "import" >>,
        new |-> << "from", "transformers.tokenization_utils_base", "import" >>],
       [old |-> << "from", ".image_processing_mllama", "import", "make_list_of_images" >>,
        new |-> << "from", "transformers.models.mllama.image_processing_mllama",
                   "import", "make_list_of_images" >>] >>

\* the patterns that occur in content at position i
PatternsAt(content, i) ==
    {k \in DOMAIN FixedPatterns :
        /\ i + Len(FixedPatterns[k].old) - 1 <= Len(content)
        /\ SubSeq(content, i, i + Len(FixedPatterns[k].old) - 1) = FixedPatterns[k].old}

\* content from position i on, with each occurrence of a fixed pattern
\* replaced and every other token kept
RECURSIVE OnlyPatternsChanged(_, _)
OnlyPatternsChanged(content, i) ==
    IF i > Len(content) THEN << >>
    ELSE IF PatternsAt(content, i) = {}
        THEN <<content[i]>> \o OnlyPatternsChanged(content, i + 1)
        ELSE LET k == CHOOSE k \in PatternsAt(content, i) : TRUE
             IN FixedPatterns[k].new
                    \o OnlyPatternsChanged(content, i + Len(FixedPatterns[k].old))

\* C21: the rewriter returns (it never raises), its result is the source text
\* with the occurrences of the five fixed patterns replaced and every other
\* token, unrecognised relative imports and imported names included, as it
\* was, and rewriting the result again changes nothing.
C21_RewriterFailsOpen ==
    last.op = "rewrite"
        => /\ last.result
           /\ last.info.rewritten = OnlyPatternsChanged(last.info.content, 1)
           /\ RewriteImports(last.info.rewritten) = last.info.rewritten

\* a text with a recognised pattern and an unrecognised relative import
C21_Witness ==
    /\ last.op = "rewrite"
    /\ last.info.rewritten # last.info.content
    /\ \E i \in DOMAIN last.info.rewritten : last.info.rewritten[i] = "...util"
    /\ \E i \in DOMAIN last.info.rewritten : last.info.rewritten[i] = "Unpack"

\* the registry keys the import of module_path creates: the path and its
\* parent packages
TargetImportKeys(module_path) ==
    {SubSeq(module_path, 1, k) : k \in 1..Len(module_path)}

\* C22: an apply, successful or failed, leaves an existing registry entry of
\* its target on the same module object, and adds no registry key (for the
\* replacement module or anything else) beyond those the import of the
\* target and of its parent packages creates.
C22_RegistryFrame ==
    [][\A p \in Paths :
         (last'.op = "apply" /\ last'.module_path = p)
            => /\ p \in DOMAIN sysmodules => /\ p \in DOMAIN sysmodules'
                                             /\ sysmodules'[p] = sysmodules[p]
               /\ (DOMAIN sysmodules') \ (DOMAIN sysmodules) \subseteq TargetImportKeys(p)]_vars

\* C23: a restore of a path for which the manager holds a snapshot succeeds,
\* also when the snapshot was taken by an apply with a backup and the path
\* was then applied again without one.
C23_SnapshotUsable ==
    [][\A self \in Mgrs, p \in Paths :
         (/\ last'.op = "restore"
          /\ last'.self = self
          /\ last'.module_path = p
          /\ p \in DOMAIN backup_modules[self])
            => last'.result]_vars

\* C24: with a scope entered and exited inside the body of another, both
\* having applied their patch: back in the outer body the target is still
\* patched (verify is true, the outer replacement's values are in place),
\* and after the outer scope exits the target's public attributes are those
\* from before the outer scope was entered.
C24_NestedScopesCompose ==
    (scope.patch_applied /\ nested.patch_applied /\ nested.pc = "exited")
        => /\ scope.pc = "body"
                => /\ verify_patch(Now, Mllama)
                   /\ \A a \in PublicNames(LoadFile(FileText(scope.file)).namespace) :
                        /\ a \in DOMAIN LiveAttrs(Mllama)
                        /\ LiveAttrs(Mllama)[a] = LoadFile(FileText(scope.file)).namespace[a]
           /\ (scope.pc = "exited" /\ last.op = "restore" /\ last.self = "scope")
                => LiveAttrs(Mllama) = last.info.run.attrs

\* C25: whatever applies and restores came before, restore_all returns true
\* and leaves the manager with no record and no snapshot and no registered
\* target with a marker; an apply with a backup on a path without a record
\* then holds the snapshot of the target as that apply found it.
C25_EveryPatchUndone ==
    /\ last.op = "restore_all"
         => /\ last.result
            /\ applied_patches[last.self] = << >>
            /\ backup_modules[last.self] = EmptyDict
            /\ \A p \in Paths : ~verify_patch(Now, p)
    /\ (last.op = "apply" /\ last.result /\ last.info.backup
            /\ ~last.info.patched_before)
         => backup_modules[last.self][last.module_path]
                = first[last.self][last.module_path].attrs

====
